---- MODULE Spec2Model ----
(***************************************************************************)
(* WS2812 LED control firmware (src/src/main.rs).                          *)
(*                                                                         *)
(* One thread (run_main) builds the two frame buffers, shows the boot      *)
(* colours, then runs create_udp_server: an endless loop that receives a   *)
(* UDP datagram into a 638-byte buffer, validates it, writes RGB triplets  *)
(* into the strip buffer under its write lock, and transmits the strip     *)
(* buffer as a WS2812B pulse waveform.                                     *)
(***************************************************************************)
EXTENDS Integers, Sequences, FiniteSets, TLC

VARIABLES
    pc,             \* position of the run_main thread
    onboard,        \* onboard_led_state: Vec<Rgb>
    strip,          \* rgb_stripe_state: Vec<Rgb>
    stripLock,      \* RwLock of the strip buffer: "free", "write" or "read"
    stripPoisoned,  \* the RwLock was poisoned by a panic under the write guard
    buf,            \* receive buffer of the current loop iteration
    size,           \* bytes recv_from reported for the current packet
    logged,         \* last message of the loop (info!/warn!), "" when none
    onboardSignal,  \* last waveform handed to tx_onboard.start_blocking
    stripSignal,    \* last waveform handed to tx_stripe.start_blocking
    sends,          \* strip transmissions since the last recv_from returned
    hsv,            \* the last call of Rgb::from_hsv: its arguments and result
    datagramLen     \* length on the wire of the datagram recv_from took

vars == <<pc, onboard, strip, stripLock, stripPoisoned, buf, size, logged,
          onboardSignal, stripSignal, sends, hsv, datagramLen>>

----------------------------------------------------------------------------
(* Program constants *)

ONBOARD_LEDS == 1
STRIPE_LEDS == 50
BUF_LEN == 638
HEADER_LEN == 125
UNIVERSE_OFFSET == 113
COUNT_OFFSET == 123
COLOR_BITS == 24

TIMINGS_WS2812 == <<350, 800, 700, 600>>
TIMINGS_WS2812B == <<400, 800, 850, 450>>

(* Bounds of the model *)

NumSeeds == 2       \* distinct payload byte patterns a sender may use
MaxUniverse == 1    \* universe field values are multiples of 257 up to this
MaxSmallCount == 4  \* property-value counts 0..MaxSmallCount are enumerated
MaxPixels == 3      \* buffer lengths fed to the encoder in SpecPure
HsvSlack == 2       \* from_hsv arguments reach this far around their limits

----------------------------------------------------------------------------
(* Colour model *)

\* Rgb::new
Rgb(r, g, b) == [r |-> r, g |-> g, b |-> b]

\* from_slice reading the array in GRB order
from_slice_grb(rgb) == [r |-> rgb[2], g |-> rgb[1], b |-> rgb[3]]

\* Rgb::from_slice: the argument is a 3-element array, indexed from 1 here
from_slice(rgb) == [r |-> rgb[1], g |-> rgb[2], b |-> rgb[3]]

HSV_MAX_H == 360
HSV_MAX_S == 100
HSV_MAX_V == 100

\* the range check with exclusive upper bounds
from_hsv_in_range_excl(h, s, v) == ~(h >= HSV_MAX_H \/ s >= HSV_MAX_S \/ v >= HSV_MAX_V)

\* Rgb::from_hsv returns Ok: the negation of the condition of its bail!
from_hsv_in_range(h, s, v) == ~(h > HSV_MAX_H \/ s > HSV_MAX_S \/ v > HSV_MAX_V)

\* Rgb::from_hsv(150, 100, 13): c = 0.13, x = 0.065, m = 0, sextant 120..179
\* gives (0, c, x), truncated after scaling by 255
StripDefault == Rgb(0, 33, 16)

\* impl From<&Rgb> for u32: g | r << 8 | b << 16
to_u32(rgb) == rgb.g + (rgb.r * 256) + (rgb.b * 65536)

----------------------------------------------------------------------------
(* Pulse encoder *)

Pow2(n) == IF n = 0 THEN 1 ELSE 2 ^ n

\* p & color != 0 for p = 2^i
BitSet(color, i) == (color \div Pow2(i)) % 2 = 1

\* Pulse::new_with_duration(ticks_hz, pin, nanos)
Pulse(pin, ns) == [pin |-> pin, ns |-> ns]

\* the (high_pulse, low_pulse) pair pushed for one bit
PulsePair(bit, timings) ==
    IF bit THEN <<Pulse("High", timings[3]), Pulse("Low", timings[4])>>
           ELSE <<Pulse("High", timings[1]), Pulse("Low", timings[2])>>

\* the inner loop running over 0..23 only
ColorPulses_short(color, timings) ==
    [j \in 1..(COLOR_BITS - 1) |-> PulsePair(BitSet(color, COLOR_BITS - j), timings)]

\* the inner loop running upwards: for i in 0..24
ColorPulses_lsb_first(color, timings) ==
    [j \in 1..COLOR_BITS |-> PulsePair(BitSet(color, j - 1), timings)]

\* the inner loop: for i in (0..24).rev()
ColorPulses(color, timings) ==
    [j \in 1..COLOR_BITS |-> PulsePair(BitSet(color, COLOR_BITS - j), timings)]

RECURSIVE EncodeFrom(_, _, _)
EncodeFrom(rgb, k, timings) ==
    IF k > Len(rgb) THEN <<>>
    ELSE ColorPulses(to_u32(rgb[k]), timings) \o EncodeFrom(rgb, k + 1, timings)

\* the signal send_led_signal builds: for color in rgb { ... }
EncodeSignal(rgb, timings) == EncodeFrom(rgb, 1, timings)

----------------------------------------------------------------------------
(* Packet layout *)

Min(a, b) == IF a < b THEN a ELSE b

\* u16::from_le_bytes in place of from_be_bytes
from_le_bytes(b, off) == b[off] + b[off + 1] * 256

\* u16::from_be_bytes(buf[off..=off+1])
from_be_bytes(b, off) == b[off] * 256 + b[off + 1]

\* (125..=638).contains(&size)
SizeInRange(sz) == sz >= HEADER_LEN /\ sz <= BUF_LEN

property_value_count(b) == from_be_bytes(b, COUNT_OFFSET)

universe(b) == from_be_bytes(b, UNIVERSE_OFFSET)

\* the count check also dropping every universe but 0
Truncated_universe(sz, b) ==
    sz < HEADER_LEN + property_value_count(b) \/ universe(b) # 0

\* the count check against the capacity of the buffer: buf.len() < 125 + count
Truncated_buf_len(sz, b) == BUF_LEN < HEADER_LEN + property_value_count(b)

\* size < 125 + property_value_count as usize
Truncated(sz, b) == sz < HEADER_LEN + property_value_count(b)

\* property_values.chunks(3).count()
NumChunks(n) == (n + 2) \div 3

\* length of chunk i of property_values.chunks(3)
ChunkLen(n, i) == Min(3, n - 3 * i)

\* chunk i of &buf[125..125 + n], as an array indexed from 1
Chunk(b, n, i) == [k \in 1..ChunkLen(n, i) |-> b[HEADER_LEN + 3 * i + (k - 1)]]

\* the for loop over property_values.chunks(3).enumerate(), from chunk i on:
\* it stops at the first chunk index outside the buffer, and try_into() of a
\* chunk shorter than 3 bytes fails, so that expect() panics
RECURSIVE UpdateFrom(_, _, _, _)
UpdateFrom(st, b, n, i) ==
    IF i >= NumChunks(n)
    THEN [strip |-> st, panicked |-> FALSE, overflow |-> FALSE]
    ELSE IF i >= Len(st)
    THEN [strip |-> st, panicked |-> FALSE, overflow |-> TRUE]
    ELSE IF ChunkLen(n, i) # 3
    THEN [strip |-> st, panicked |-> TRUE, overflow |-> FALSE]
    ELSE UpdateFrom([st EXCEPT ![i + 1] = from_slice(Chunk(b, n, i))], b, n, i + 1)

\* the loop checking the chunk before the index
RECURSIVE UpdateFrom_chunk_first(_, _, _, _)
UpdateFrom_chunk_first(st, b, n, i) ==
    IF i >= NumChunks(n)
    THEN [strip |-> st, panicked |-> FALSE, overflow |-> FALSE]
    ELSE IF ChunkLen(n, i) # 3
    THEN [strip |-> st, panicked |-> TRUE, overflow |-> FALSE]
    ELSE IF i >= Len(st)
    THEN [strip |-> st, panicked |-> FALSE, overflow |-> TRUE]
    ELSE UpdateFrom_chunk_first([st EXCEPT ![i + 1] = from_slice(Chunk(b, n, i))],
                                b, n, i + 1)

UpdateStrip_chunk_first(st, b, n) == UpdateFrom_chunk_first(st, b, n, 0)

\* the update rebuilding the buffer from the triplets of the packet
UpdateStrip_rebuild(st, b, n) ==
    LET res == UpdateFrom(st, b, n, 0)
    IN [res EXCEPT !.strip = SubSeq(res.strip, 1, Min(n \div 3, Len(st)))]

\* the update clearing the buffer before it writes the supplied prefix
UpdateStrip_clear(st, b, n) ==
    UpdateFrom([i \in 1..Len(st) |-> Rgb(0, 0, 0)], b, n, 0)

\* main.rs 178-189 on the whole slice
UpdateStrip(st, b, n) == UpdateFrom(st, b, n, 0)

----------------------------------------------------------------------------
(* Datagrams a sender can put on the wire *)

Seeds == 1..NumSeeds

Universes == {257 * u : u \in 0..MaxUniverse}

\* values of the 16-bit property-value count field
CountFields == (0..MaxSmallCount) \cup {149, 150, 151, 513, 514, 768, 65535}

\* datagram lengths on the wire
DatagramLens ==
    {0, 124} \cup {HEADER_LEN + n : n \in (0..MaxSmallCount) \cup {150, 151, 513, 514}}

\* byte k of the property values of a datagram
PayloadByte(seed, k) == (83 * seed + 7 * (k - HEADER_LEN) + 1) % 256

\* byte k of the datagram with the given field values
DatagramByte(cnt, uni, seed, k) ==
    IF k = UNIVERSE_OFFSET THEN uni \div 256
    ELSE IF k = UNIVERSE_OFFSET + 1 THEN uni % 256
    ELSE IF k = COUNT_OFFSET THEN cnt \div 256
    ELSE IF k = COUNT_OFFSET + 1 THEN cnt % 256
    ELSE IF k >= HEADER_LEN THEN PayloadByte(seed, k)
    ELSE 0

\* recv_from copies at most buf.len() bytes of the datagram into the zeroed
\* buffer and reports the number of bytes copied
RecvSize(len) == Min(len, BUF_LEN)

RecvBuf(len, cnt, uni, seed) ==
    [k \in 0..(BUF_LEN - 1) |->
        IF k < RecvSize(len) THEN DatagramByte(cnt, uni, seed, k) ELSE 0]

ZeroBuf == [k \in 0..(BUF_LEN - 1) |-> 0]

----------------------------------------------------------------------------
(* run_main up to the call of create_udp_server *)

\* main.rs 81: the call that filled the strip buffer, which returned Ok
StartupHsv == [h |-> 150, s |-> 100, v |-> 13, result |-> "ok"]

Init ==
    /\ pc = "show_boot"
    /\ onboard = [i \in 1..ONBOARD_LEDS |-> Rgb(8, 0, 0)]
    /\ strip = [i \in 1..STRIPE_LEDS |-> StripDefault]
    /\ stripLock = "free"
    /\ stripPoisoned = FALSE
    /\ buf = ZeroBuf
    /\ size = 0
    /\ datagramLen = 0
    /\ logged = ""
    /\ onboardSignal = <<>>
    /\ stripSignal = <<>>
    /\ sends = 0
    /\ hsv = StartupHsv

\* an error returned by run_main: main() unwraps it and the process aborts
Abort ==
    /\ pc' = "aborted"
    /\ UNCHANGED <<hsv, onboard, strip, stripLock, stripPoisoned, buf, size, datagramLen, logged,
                   onboardSignal, stripSignal, sends>>

\* an error returned by create_udp_server: run_main drops it (let _server)
\* and enters its delay loop
ServerError ==
    /\ pc' = "idle"
    /\ UNCHANGED <<hsv, onboard, strip, stripLock, stripPoisoned, buf, size, datagramLen, logged,
                   onboardSignal, stripSignal, sends>>

\* main.rs 84-88
ShowBoot ==
    /\ pc = "show_boot"
    /\ \/ /\ onboardSignal' = EncodeSignal(onboard, TIMINGS_WS2812)
          /\ pc' = "connect_wifi"
          /\ UNCHANGED <<hsv, onboard, strip, stripLock, stripPoisoned, buf, size, datagramLen,
                         logged, stripSignal, sends>>
       \/ Abort

\* main.rs 90-94
ConnectWifi ==
    /\ pc = "connect_wifi"
    /\ \/ /\ pc' = "show_connected"
          /\ UNCHANGED <<hsv, onboard, strip, stripLock, stripPoisoned, buf, size, datagramLen,
                         logged, onboardSignal, stripSignal, sends>>
       \/ Abort

\* main.rs 96-101
ShowConnected ==
    /\ pc = "show_connected"
    /\ \/ /\ onboard' = [onboard EXCEPT ![1] = Rgb(8, 0, 4)]
          /\ onboardSignal' = EncodeSignal(onboard', TIMINGS_WS2812)
          /\ pc' = "show_stripe"
          /\ UNCHANGED <<hsv, strip, stripLock, stripPoisoned, buf, size, datagramLen, logged,
                         stripSignal, sends>>
       \/ /\ onboard' = [onboard EXCEPT ![1] = Rgb(8, 0, 4)]
          /\ pc' = "aborted"
          /\ UNCHANGED <<hsv, strip, stripLock, stripPoisoned, buf, size, datagramLen, logged,
                         onboardSignal, stripSignal, sends>>

\* main.rs 105-109
ShowStripe ==
    /\ pc = "show_stripe"
    /\ \/ /\ stripSignal' = EncodeSignal(strip, TIMINGS_WS2812B)
          /\ pc' = "bind"
          /\ UNCHANGED <<hsv, onboard, strip, stripLock, stripPoisoned, buf, size, datagramLen,
                         logged, onboardSignal, sends>>
       \/ Abort

----------------------------------------------------------------------------
(* create_udp_server *)

\* main.rs 136-139
Bind ==
    /\ pc = "bind"
    /\ \/ /\ pc' = "show_listening"
          /\ logged' = "created"
          /\ UNCHANGED <<hsv, onboard, strip, stripLock, stripPoisoned, buf, size, datagramLen,
                         onboardSignal, stripSignal, sends>>
       \/ ServerError

\* main.rs 141-146
ShowListening ==
    /\ pc = "show_listening"
    /\ \/ /\ onboard' = [onboard EXCEPT ![1] = Rgb(0, 0, 8)]
          /\ onboardSignal' = EncodeSignal(onboard', TIMINGS_WS2812)
          /\ pc' = "recv"
          /\ UNCHANGED <<hsv, strip, stripLock, stripPoisoned, buf, size, datagramLen, logged,
                         stripSignal, sends>>
       \/ /\ onboard' = [onboard EXCEPT ![1] = Rgb(0, 0, 8)]
          /\ pc' = "idle"
          /\ UNCHANGED <<hsv, strip, stripLock, stripPoisoned, buf, size, datagramLen, logged,
                         onboardSignal, stripSignal, sends>>

\* main.rs 149-151
Recv ==
    /\ pc = "recv"
    /\ \/ \E len \in DatagramLens, cnt \in CountFields, uni \in Universes, seed \in Seeds :
            /\ buf' = RecvBuf(len, cnt, uni, seed)
            /\ size' = RecvSize(len)
            /\ datagramLen' = len
            /\ logged' = "received"
            /\ sends' = 0
            /\ pc' = "check_size"
            /\ UNCHANGED <<hsv, onboard, strip, stripLock, stripPoisoned,
                           onboardSignal, stripSignal>>
       \/ ServerError

\* main.rs 148-149: the next loop iteration starts with a fresh zeroed buffer
NextPacket ==
    /\ pc' = "recv"
    /\ buf' = ZeroBuf
    /\ size' = 0
    /\ datagramLen' = 0

\* main.rs 153-156
CheckSize ==
    /\ pc = "check_size"
    /\ IF ~SizeInRange(size)
       THEN /\ logged' = "invalid_size"
            /\ NextPacket
       ELSE /\ pc' = "check_count"
            /\ UNCHANGED <<logged, buf, size, datagramLen>>
    /\ UNCHANGED <<hsv, onboard, strip, stripLock, stripPoisoned,
                   onboardSignal, stripSignal, sends>>

\* the count check placed after a write of the bytes that did arrive
CheckCount_late ==
    /\ pc = "check_count"
    /\ IF Truncated(size, buf)
       THEN /\ logged' = "insufficient_size"
            /\ strip' = UpdateStrip(strip, buf, size - HEADER_LEN).strip
            /\ NextPacket
       ELSE /\ pc' = "lock_write"
            /\ UNCHANGED <<logged, buf, size, datagramLen, strip>>
    /\ UNCHANGED <<hsv, onboard, stripLock, stripPoisoned,
                   onboardSignal, stripSignal, sends>>

\* main.rs 158-169
CheckCount ==
    /\ pc = "check_count"
    /\ IF Truncated(size, buf)
       THEN /\ logged' = "insufficient_size"
            /\ NextPacket
       ELSE /\ pc' = "lock_write"
            /\ UNCHANGED <<logged, buf, size, datagramLen>>
    /\ UNCHANGED <<hsv, onboard, strip, stripLock, stripPoisoned,
                   onboardSignal, stripSignal, sends>>

\* main.rs 172-176
LockWrite ==
    /\ pc = "lock_write"
    /\ stripLock = "free"
    /\ ~stripPoisoned
    /\ stripLock' = "write"
    /\ logged' = "updating_leds"
    /\ pc' = "update"
    /\ UNCHANGED <<hsv, onboard, strip, stripPoisoned, buf, size, datagramLen, onboardSignal,
                   stripSignal, sends>>

\* the render called inside the block of the write guard
Update_render_in_block ==
    /\ pc = "update"
    /\ stripLock = "write"
    /\ LET res == UpdateStrip(strip, buf, property_value_count(buf))
       IN /\ strip' = res.strip
          /\ stripLock' = IF res.panicked THEN "free" ELSE "write"
          /\ stripPoisoned' = res.panicked
          /\ pc' = IF res.panicked THEN "panicked" ELSE "send"
          /\ logged' = IF res.panicked THEN "slice with incorrect length"
                       ELSE "updating_stripe"
    /\ UNCHANGED <<hsv, onboard, buf, size, datagramLen, onboardSignal, stripSignal, sends>>

\* the write guard bound in the loop body instead of the inner block
Update_keep_guard ==
    /\ pc = "update"
    /\ stripLock = "write"
    /\ LET res == UpdateStrip(strip, buf, property_value_count(buf))
       IN /\ strip' = res.strip
          /\ stripLock' = IF res.panicked THEN "free" ELSE "write"
          /\ stripPoisoned' = res.panicked
          /\ pc' = IF res.panicked THEN "panicked" ELSE "lock_read"
          /\ logged' = IF res.panicked THEN "slice with incorrect length"
                       ELSE "updating_stripe"
    /\ UNCHANGED <<hsv, onboard, buf, size, datagramLen, onboardSignal, stripSignal, sends>>

\* main.rs 178-190: the loop, then the write guard goes out of scope; a panic
\* unwinds through the guard, which poisons and releases the lock
Update ==
    /\ pc = "update"
    /\ stripLock = "write"
    /\ LET res == UpdateStrip(strip, buf, property_value_count(buf))
       IN /\ strip' = res.strip
          /\ stripLock' = "free"
          /\ stripPoisoned' = res.panicked
          /\ pc' = IF res.panicked THEN "panicked" ELSE "lock_read"
          /\ logged' = IF res.panicked THEN "slice with incorrect length"
                       ELSE "updating_stripe"
    /\ UNCHANGED <<hsv, onboard, buf, size, datagramLen, onboardSignal, stripSignal, sends>>

\* main.rs 194: rgb_stripe_state_lock.read().unwrap()
LockRead ==
    /\ pc = "lock_read"
    /\ stripLock = "free"
    /\ ~stripPoisoned
    /\ stripLock' = "read"
    /\ pc' = "send"
    /\ UNCHANGED <<hsv, onboard, strip, stripPoisoned, buf, size, datagramLen, logged,
                   onboardSignal, stripSignal, sends>>

\* the result of send_led_signal logged and dropped instead of returned by ?
Send_swallow ==
    /\ pc = "send"
    /\ stripLock = "read"
    /\ stripLock' = "free"
    /\ \/ /\ stripSignal' = EncodeSignal(strip, TIMINGS_WS2812B)
          /\ sends' = sends + 1
          /\ logged' = "updated_stripe"
          /\ NextPacket
       \/ /\ logged' = "send_failed"
          /\ NextPacket
          /\ UNCHANGED <<stripSignal, sends>>
    /\ UNCHANGED <<hsv, onboard, strip, stripPoisoned, onboardSignal>>

\* main.rs 193-199: send_led_signal on the read view; the read guard is a
\* temporary of the statement and is dropped on success and on error
Send ==
    /\ pc = "send"
    /\ stripLock = "read"
    /\ stripLock' = "free"
    /\ \/ /\ stripSignal' = EncodeSignal(strip, TIMINGS_WS2812B)
          /\ sends' = sends + 1
          /\ logged' = "updated_stripe"
          /\ NextPacket
       \/ /\ pc' = "idle"
          /\ UNCHANGED <<stripSignal, sends, logged, buf, size, datagramLen>>
    /\ UNCHANGED <<hsv, onboard, strip, stripPoisoned, onboardSignal>>

\* run_main calling create_udp_server again after it returned
Idle_retry ==
    /\ pc = "idle"
    /\ pc' = "bind"
    /\ buf' = ZeroBuf
    /\ size' = 0
    /\ datagramLen' = 0
    /\ UNCHANGED <<hsv, onboard, strip, stripLock, stripPoisoned, logged,
                   onboardSignal, stripSignal, sends>>

\* main.rs 123-125
Idle ==
    /\ pc = "idle"
    /\ UNCHANGED vars

Next ==
    \/ ShowBoot
    \/ ConnectWifi
    \/ ShowConnected
    \/ ShowStripe
    \/ Bind
    \/ ShowListening
    \/ Recv
    \/ CheckSize
    \/ CheckCount
    \/ LockWrite
    \/ Update
    \/ LockRead
    \/ Send
    \/ Idle

Spec == Init /\ [][Next]_vars

----------------------------------------------------------------------------
(* The colour model and the pulse encoder on their own: buffers of 0 up to *)
(* MaxPixels pixels are packed and encoded.                                *)

TestColors ==
    {Rgb(1, 2, 4), Rgb(0, 0, 0), Rgb(255, 255, 255), Rgb(255, 0, 128), Rgb(0, 33, 16)}

PixelBuffers == UNION {[1..k -> TestColors] : k \in 0..MaxPixels}

PureInit ==
    /\ pc = "encode"
    /\ strip \in PixelBuffers
    /\ onboard = <<Rgb(8, 0, 0)>>
    /\ stripLock = "free"
    /\ stripPoisoned = FALSE
    /\ buf = ZeroBuf
    /\ size = 0
    /\ datagramLen = 0
    /\ logged = ""
    /\ onboardSignal = <<>>
    /\ stripSignal = <<>>
    /\ sends = 0
    /\ hsv = StartupHsv

\* main.rs 203-226: send_led_signal on the buffer
PureEncode ==
    /\ pc = "encode"
    /\ \/ /\ stripSignal' = EncodeSignal(strip, TIMINGS_WS2812B)
          /\ sends' = sends + 1
          /\ pc' = "encoded"
       \/ /\ pc' = "encode_failed"
          /\ UNCHANGED <<stripSignal, sends>>
    /\ UNCHANGED <<hsv, onboard, strip, stripLock, stripPoisoned, buf, size, datagramLen, logged,
                   onboardSignal>>

PureNext == PureEncode

SpecPure == PureInit /\ [][PureNext]_vars

----------------------------------------------------------------------------
(* Rgb::from_hsv on its own: arguments around the limits of the three      *)
(* ranges.                                                                 *)

HsvHues == {0, 150} \cup ((HSV_MAX_H - HsvSlack)..(HSV_MAX_H + HsvSlack))

HsvPercents == {0, 13} \cup ((HSV_MAX_S - HsvSlack)..(HSV_MAX_S + HsvSlack))

HsvInit ==
    /\ pc = "from_hsv"
    /\ hsv \in [h : HsvHues, s : HsvPercents, v : HsvPercents, result : {"pending"}]
    /\ strip = <<>>
    /\ onboard = <<Rgb(8, 0, 0)>>
    /\ stripLock = "free"
    /\ stripPoisoned = FALSE
    /\ buf = ZeroBuf
    /\ size = 0
    /\ datagramLen = 0
    /\ logged = ""
    /\ onboardSignal = <<>>
    /\ stripSignal = <<>>
    /\ sends = 0

\* main.rs 249-271: the call returns Err from the bail! or Ok with a colour
HsvCall ==
    /\ pc = "from_hsv"
    /\ hsv' = [hsv EXCEPT !.result =
                  IF from_hsv_in_range(hsv.h, hsv.s, hsv.v) THEN "ok" ELSE "err"]
    /\ pc' = "from_hsv_returned"
    /\ UNCHANGED <<onboard, strip, stripLock, stripPoisoned, buf, size, datagramLen, logged,
                   onboardSignal, stripSignal, sends>>

HsvNext == HsvCall

SpecHsv == HsvInit /\ [][HsvNext]_vars

----------------------------------------------------------------------------
(* Properties *)

\* the count field and the triplets of the packet in the receive buffer,
\* read off the wire layout
WireCount == buf[123] * 256 + buf[124]

WireTriplet(i) == [r |-> buf[125 + 3 * i], g |-> buf[125 + 3 * i + 1],
                   b |-> buf[125 + 3 * i + 2]]

\* C1: no UDP payload makes the ingestion loop crash: every packet is applied
\* or dropped, and the loop goes on to listen for the next one.
C1_NoCrash == pc # "panicked" /\ ~stripPoisoned

\* C2: a UDP packet is rejected by the size check exactly when its size is
\* outside 125..638: sizes 124 and 639 are rejected, and a packet of size 125
\* with count 0 is accepted and updates zero pixels.
C2_SizeCheck ==
    [][/\ pc = "check_size" =>
            /\ (datagramLen < 125 \/ datagramLen > 638) =>
                    (logged' = "invalid_size" /\ pc' = "recv")
            /\ (datagramLen >= 125 /\ datagramLen <= 638) =>
                    (logged' = logged /\ pc' = "check_count")
       /\ (pc = "check_count" /\ datagramLen = 125 /\ WireCount = 0) =>
            pc' = "lock_write"
       /\ (pc = "update" /\ datagramLen = 125 /\ WireCount = 0) =>
            (strip' = strip /\ pc' = "lock_read")
      ]_vars

\* C3: a packet that passed the size check is rejected as truncated exactly
\* when its size is below 125 plus the big-endian count of bytes 123-124;
\* otherwise it proceeds to the buffer update.
C3_TruncationCheck ==
    [][pc = "check_count" =>
            /\ (size < 125 + WireCount) => (logged' = "insufficient_size" /\ pc' = "recv")
            /\ (size >= 125 + WireCount) => (logged' = logged /\ pc' = "lock_write")
      ]_vars

C3_Witness == pc = "recv" /\ logged = "insufficient_size"

\* C4: a rejected packet (size out of range or truncated) leaves the strip
\* buffer pixel for pixel as it was and transmits no waveform.
C4_RejectKeepsFrame ==
    [][(pc \in {"check_size", "check_count"} /\ pc' = "recv") =>
            /\ logged' \in {"invalid_size", "insufficient_size"}
            /\ strip' = strip
            /\ stripSignal' = stripSignal
            /\ sends' = 0
      ]_vars

C4_Witness ==
    /\ pc = "recv"
    /\ logged \in {"invalid_size", "insufficient_size"}
    /\ strip[1] # StripDefault
    /\ stripSignal = EncodeSignal(strip, TIMINGS_WS2812B)

\* C5: after the update of an accepted packet, every strip pixel i below both
\* the number of 3-byte chunks and the buffer length is (byte 125+3i,
\* byte 125+3i+1, byte 125+3i+2) of the payload.
C5_ChunkToPixel ==
    pc \in {"lock_read", "send", "panicked"} =>
        \A i \in 0..49 : i < WireCount \div 3 => strip[i + 1] = WireTriplet(i)

C5_Witness == pc = "send" /\ WireCount = 150 /\ strip[50] = WireTriplet(49)

\* C6: a packet that supplies fewer triplets than the buffer length leaves
\* every pixel at or beyond the number of supplied triplets as it was.
C6_PartialUpdate ==
    [][pc = "update" =>
            \A i \in 0..49 : i >= WireCount \div 3 => strip'[i + 1] = strip[i + 1]
      ]_vars

C6_Witness ==
    /\ pc = "lock_read"
    /\ WireCount = 3
    /\ strip[1] = WireTriplet(0)
    /\ strip[2] # StripDefault
    /\ strip[2] # WireTriplet(1)

\* C7: a count that supplies more triplets than the buffer holds writes
\* indices 0..49 only, discards the rest and completes without error: the
\* loop goes on to render the frame.
C7_Overflow ==
    [][(pc = "update" /\ WireCount > 150) =>
            /\ pc' = "lock_read"
            /\ ~stripPoisoned'
            /\ Len(strip') = 50
            /\ \A i \in 0..49 : strip'[i + 1] = WireTriplet(i)
      ]_vars

C7_Witness == pc = "send" /\ WireCount > 150 /\ strip[50] = WireTriplet(49)

\* C8: the buffers keep their lengths, 1 for the onboard indicator and 50
\* for the strip: no packet grows or shrinks them.
C8_BufferLength ==
    /\ Len(onboard) = 1
    /\ DOMAIN onboard = 1..1
    /\ Len(strip) = 50
    /\ DOMAIN strip = 1..50

C8_Witness ==
    /\ pc = "recv"
    /\ logged = "updated_stripe"
    /\ sends = 1
    /\ Len(stripSignal) = 24 * 50

\* C9: the packed integer has green in bits 16-23, red in bits 8-15 and blue
\* in bits 0-7, so that the three bit fields give back (r, g, b).
C9_PackedLayout ==
    pc = "encoded" =>
        \A i \in 1..Len(strip) :
            LET packed == to_u32(strip[i])
            IN /\ (packed \div 65536) % 256 = strip[i].g
               /\ (packed \div 256) % 256 = strip[i].r
               /\ packed % 256 = strip[i].b

\* C10: encoding a buffer of K pixels yields exactly 24*K pulse pairs, and an
\* empty waveform for K = 0.
C10_PulseCount ==
    pc = "encoded" =>
        /\ Len(stripSignal) = 24 * Len(strip)
        /\ (Len(strip) = 0 => stripSignal = <<>>)
        /\ \A j \in 1..Len(stripSignal) :
              /\ Len(stripSignal[j]) = 2
              /\ stripSignal[j][1].pin = "High"
              /\ stripSignal[j][2].pin = "Low"

C10_Witness == pc = "encoded" /\ Len(strip) = 2 /\ Len(stripSignal) = 48

\* C12: from_hsv(h, s, v) fails for every input with h > 360 or s > 100 or
\* v > 100 and succeeds for every other input: the bounds are inclusive.
C12_HsvRange ==
    pc = "from_hsv_returned" =>
        /\ (hsv.h > 360 \/ hsv.s > 100 \/ hsv.v > 100) => hsv.result = "err"
        /\ (hsv.h <= 360 /\ hsv.s <= 100 /\ hsv.v <= 100) => hsv.result = "ok"

C12_Witness ==
    /\ pc = "from_hsv_returned"
    /\ hsv.h = 360 /\ hsv.s = 100 /\ hsv.v = 100
    /\ hsv.result = "ok"

\* the number of strip pixels the packet in the receive buffer supplies in full
WirePixels == Min(WireCount \div 3, 50)

\* C11: the write lock excludes reads: the read view is held only in the
\* render step and never together with the write view, and the frame a render
\* pass reads has every supplied pixel whole, all three bytes from the packet.
C11_WriteExcludesRead ==
    /\ stripLock = "write" => pc = "update"
    /\ stripLock = "read" => pc = "send"
    /\ pc = "send" =>
          /\ stripLock = "read"
          /\ \A i \in 0..49 : i < WirePixels => strip[i + 1] = WireTriplet(i)

C11_Witness ==
    /\ pc = "send"
    /\ stripLock = "read"
    /\ WireCount = 3
    /\ strip[1] = WireTriplet(0)
    /\ strip[2] # StripDefault

\* C13: the universe field is not enforced: from the same state, the packet
\* with bytes 113-114 replaced by any other universe gets the same decision
\* at both checks, the same strip buffer and the same waveform.
C13_UniverseIgnored ==
    [][\A u \in Universes \cup {0, 1, 65535} :
          LET other == [buf EXCEPT ![113] = u \div 256, ![114] = u % 256]
              cnt == other[123] * 256 + other[124]
          IN /\ pc = "check_size" =>
                  ((pc' = "recv") <=> ~SizeInRange(size))
             /\ pc = "check_count" =>
                  ((pc' = "recv") <=> Truncated(size, other))
             /\ pc = "update" =>
                  /\ strip' = UpdateStrip(strip, other, cnt).strip
                  /\ (pc' = "panicked") <=> UpdateStrip(strip, other, cnt).panicked
             /\ (pc = "send" /\ pc' = "recv") =>
                  stripSignal' = EncodeSignal(strip, TIMINGS_WS2812B)
      ]_vars

C13_Witness ==
    /\ pc = "send"
    /\ buf[113] * 256 + buf[114] = 257
    /\ WireCount = 150
    /\ strip[1] = WireTriplet(0)

\* C15: pulse pair 24*p + j of the waveform is the (T1H, T1L) pair if bit
\* 23 - j of pixel p's packed value is set and the (T0H, T0L) pair otherwise.
C15_BitOrder ==
    pc = "encoded" =>
        \A p \in 0..(Len(strip) - 1) : \A j \in 0..23 :
            LET packed == strip[p + 1].g + 256 * strip[p + 1].r + 65536 * strip[p + 1].b
                bit == (packed \div (2 ^ (23 - j))) % 2
            IN stripSignal[24 * p + j + 1] =
                  IF bit = 1
                  THEN <<[pin |-> "High", ns |-> 850], [pin |-> "Low", ns |-> 450]>>
                  ELSE <<[pin |-> "High", ns |-> 400], [pin |-> "Low", ns |-> 800]>>

C15_Witness ==
    /\ pc = "encoded"
    /\ Len(strip) = 2
    /\ strip[2] = Rgb(1, 2, 4)
    /\ stripSignal[24 + 6][1].ns = 850
    /\ stripSignal[24 + 5][1].ns = 400

\* C16: the write lock is released before the render asks for the read view:
\* the thread never waits for the read lock while it holds the write lock.
C16_ReleasedBeforeRender ==
    pc \in {"lock_read", "send"} => stripLock # "write"

C16_Witness ==
    /\ pc = "lock_read"
    /\ stripLock = "free"
    /\ logged = "updating_stripe"
    /\ strip[1] = WireTriplet(0)

\* C17: every accepted packet is followed by exactly one transmission of the
\* strip buffer in its post-update state, complete before the next packet.
C17_OneTransmission ==
    /\ sends <= 1
    /\ (pc = "recv" /\ logged = "updated_stripe") =>
          (sends = 1 /\ stripSignal = EncodeSignal(strip, TIMINGS_WS2812B))
    /\ pc = "panicked" => sends = 1

\* C18: when the transmit sink fails during the render, the error leaves the
\* loop for its caller; the strip keeps the update and no lock stays held.
C18_TransmitError ==
    [][(pc = "send" /\ sends' = sends) =>
            /\ pc' = "idle"
            /\ strip' = strip
            /\ \A i \in 0..49 : i < WirePixels => strip'[i + 1] = WireTriplet(i)
            /\ stripLock' = "free"
            /\ ~stripPoisoned'
            /\ stripSignal' = stripSignal
      ]_vars

C18_Witness ==
    /\ pc = "idle"
    /\ WireCount = 150
    /\ strip[50] = WireTriplet(49)
    /\ stripSignal # EncodeSignal(strip, TIMINGS_WS2812B)
    /\ stripLock = "free"

\* C19: once the ingestion loop has ended with an error the process stays in
\* the delay loop for ever: it neither exits nor retries, applies no later
\* packet and transmits no further frame.
C19_IdleForEver ==
    [][/\ (pc \in {"bind", "show_listening", "recv", "send"}
           /\ pc' \notin {"show_listening", "recv", "check_size"}) => pc' = "idle"
       /\ pc = "idle" =>
            /\ pc' = "idle"
            /\ strip' = strip
            /\ stripSignal' = stripSignal
            /\ onboardSignal' = onboardSignal
      ]_vars

C19_Witness ==
    /\ pc = "idle"
    /\ logged = "updated_stripe"
    /\ strip[1] # StripDefault

\* C20: every pixel an accepted packet writes is made of bytes 125..size-1 of
\* that packet: none lies past the received size or outside the 638 bytes.
C20_BytesReceived ==
    pc \in {"update", "lock_read", "send", "panicked"} =>
        /\ size <= 638
        /\ 125 + WireCount <= size
        /\ \A i \in 0..49 : i < WirePixels => 125 + 3 * i + 2 <= size - 1

C20_Witness ==
    /\ pc = "lock_read"
    /\ size = 638
    /\ WireCount = 513
    /\ strip[50] = WireTriplet(49)

====
